---- MODULE Spec2Model ----
(***************************************************************************)
(* A model of daikin-aircon-jslib (src/connector.ts): the response         *)
(* decoder of Aircon.send_request, the PARSER / FORMATTER coercion tables, *)
(* the field mappers parse_data / format_data, and the read-modify-write   *)
(* of Aircon.set_control_info against an appliance.                        *)
(*                                                                         *)
(* JavaScript strings are sequences of one-character strings, so that      *)
(* split, substr, indexOf, parseInt, parseFloat and decodeURIComponent are *)
(* computed character by character.  A JavaScript value is a record        *)
(* [t, s, n, e]: t is its type tag, s the characters of a string, and a    *)
(* finite number is the decimal n / 10^e with no trailing zero (24.5 is    *)
(* n = 245, e = 1); NaN has its own tag and -0 is 0.  A JavaScript object  *)
(* is a function from its own keys (character sequences) to values.        *)
(***************************************************************************)
EXTENDS Integers, Sequences, FiniteSets, TLC

VARIABLES
    host,       \* Aircon.host, set by the constructor, never assigned again
    appliance,  \* the appliance's control state: key -> wire string
    epoch,      \* number of writes the appliance has applied
    objects,    \* the caller's parameter objects, by reference
    calls,      \* the public calls in progress, one record per call
    parts,      \* decoder: the comma-separated parts the response is made of
    payload,    \* decoder: the response body handed to send_request's handler
    decoded,    \* decoder: the handler's outcome
    info,       \* decoder: what get_control_info resolves to
    kind,       \* coercion: the Format kind
    raw,        \* coercion: the value handed to PARSER[kind]
    parsed,     \* coercion: PARSER[kind](raw)
    formatted,  \* coercion: FORMATTER[kind](parsed)
    reparsed,   \* coercion: PARSER[kind](formatted)
    stage       \* coercion: how far the chain parse, format, parse has run

vars == <<host, appliance, epoch, objects, calls, parts, payload, decoded, info,
          kind, raw, parsed, formatted, reparsed, stage>>

sysVars == <<host, appliance, epoch, objects, calls>>
decVars == <<parts, payload, decoded, info>>
coeVars == <<kind, raw, parsed, formatted, reparsed, stage>>

(***************************************************************************)
(* JavaScript values                                                       *)
(***************************************************************************)
Str(s) == [t |-> "string", s |-> s, n |-> 0, e |-> 0]

RECURSIVE Dec(_, _)
Dec(n, e) ==
    IF e > 0 /\ n % 10 = 0 THEN Dec(n \div 10, e - 1)
    ELSE [t |-> "number", s |-> <<>>, n |-> n, e |-> e]

Num(n) == Dec(n, 0)

NaN == [t |-> "nan", s |-> <<>>, n |-> 0, e |-> 0]

Null == [t |-> "null", s |-> <<>>, n |-> 0, e |-> 0]

Undefined == [t |-> "undefined", s |-> <<>>, n |-> 0, e |-> 0]

Bool(b) == [t |-> "boolean", s |-> <<>>, n |-> IF b THEN 1 ELSE 0, e |-> 0]

\* x == null / x != null: loose equality, true of null and undefined only
IsNullish(x) == x.t \in {"null", "undefined"}

Digits == <<"0", "1", "2", "3", "4", "5", "6", "7", "8", "9">>

IsDigit(c) == \E i \in 1..10 : Digits[i] = c

DigitVal(c) == (CHOOSE i \in 1..10 : Digits[i] = c) - 1

IsSpace(c) == c \in {" ", "\t", "\n"}

RECURSIVE NatToChars(_)
NatToChars(k) ==
    IF k < 10 THEN <<Digits[k + 1]>>
    ELSE NatToChars(k \div 10) \o <<Digits[(k % 10) + 1]>>

RECURSIVE Pow10(_)
Pow10(e) == IF e = 0 THEN 1 ELSE 10 * Pow10(e - 1)

\* the e low decimal digits of k, zero-padded
RECURSIVE FracChars(_, _)
FracChars(k, e) ==
    IF e = 0 THEN <<>>
    ELSE FracChars(k \div 10, e - 1) \o <<Digits[(k % 10) + 1]>>

\* Number::toString of the finite number n / 10^e
NumToChars(n, e) ==
    LET a == IF n < 0 THEN -n ELSE n
        whole == NatToChars(a \div Pow10(e))
        frac == IF e = 0 THEN <<>> ELSE <<".">> \o FracChars(a % Pow10(e), e)
    IN  (IF n < 0 THEN <<"-">> ELSE <<>>) \o whole \o frac

\* '' + x
JSString(x) ==
    CASE x.t = "string"    -> x.s
      [] x.t = "number"    -> NumToChars(x.n, x.e)
      [] x.t = "nan"       -> <<"N", "a", "N">>
      [] x.t = "null"      -> <<"n", "u", "l", "l">>
      [] x.t = "undefined" -> <<"u", "n", "d", "e", "f", "i", "n", "e", "d">>
      [] x.t = "boolean"   -> IF x.n = 1 THEN <<"t", "r", "u", "e">>
                              ELSE <<"f", "a", "l", "s", "e">>

RECURSIVE StripSpace(_)
StripSpace(s) ==
    IF s # <<>> /\ IsSpace(Head(s)) THEN StripSpace(Tail(s)) ELSE s

\* the longest prefix of s made of digits
RECURSIVE DigitPrefix(_)
DigitPrefix(s) ==
    IF s # <<>> /\ IsDigit(Head(s)) THEN <<Head(s)>> \o DigitPrefix(Tail(s))
    ELSE <<>>

RECURSIVE DigitsVal(_)
DigitsVal(s) ==
    IF s = <<>> THEN 0
    ELSE 10 * DigitsVal(SubSeq(s, 1, Len(s) - 1)) + DigitVal(s[Len(s)])

Drop(s, k) == SubSeq(s, k + 1, Len(s))

\* parseInt(s, 10): leading white space, a sign, then digits up to the first
\* character that is not one; NaN when there is no digit
parseInt(s) ==
    LET t == StripSpace(s)
        neg == t # <<>> /\ Head(t) = "-"
        u == IF t # <<>> /\ Head(t) \in {"-", "+"} THEN Tail(t) ELSE t
        d == DigitPrefix(u)
    IN  IF d = <<>> THEN NaN
        ELSE Num(IF neg THEN -DigitsVal(d) ELSE DigitsVal(d))

\* parseFloat(s): leading white space, a sign, digits, a point and digits;
\* NaN when there is no digit.  The strings of this model carry no exponent
\* part and do not spell Infinity.
parseFloat(s) ==
    LET t == StripSpace(s)
        neg == t # <<>> /\ Head(t) = "-"
        u == IF t # <<>> /\ Head(t) \in {"-", "+"} THEN Tail(t) ELSE t
        w == DigitPrefix(u)
        r == Drop(u, Len(w))
        f == IF r # <<>> /\ Head(r) = "." THEN DigitPrefix(Tail(r)) ELSE <<>>
        m == DigitsVal(w \o f)
    IN  IF w = <<>> /\ f = <<>> THEN NaN
        ELSE Dec(IF neg THEN -m ELSE m, Len(f))

(***************************************************************************)
(* PARSER and FORMATTER, src/connector.ts lines 147-159                    *)
(***************************************************************************)
\* PARSER.int without its null check
PARSER_int_unchecked(x) == parseInt(JSString(x))

PARSER_int(x) == IF IsNullish(x) THEN Num(0) ELSE parseInt(JSString(x))

PARSER_temperature(x) ==
    IF IsNullish(x) \/ x = Str(<<"-">>) \/ x = Str(<<"-", "-">>) THEN Null
    ELSE parseFloat(JSString(x))

PARSER_bool(x) ==
    Bool(x = Str(<<"t", "r", "u", "e">>) \/ x = Num(1) \/ x = Bool(TRUE))

PARSER_default(x) == x

FORMATTER_int(x) == Str(JSString(PARSER_int(x)))

FORMATTER_temperature(x) == Str(JSString(PARSER_temperature(x)))

FORMATTER_bool(x) ==
    IF PARSER_bool(x) = Bool(TRUE) THEN Str(<<"1">>) ELSE Str(<<"0">>)

FORMATTER_default(x) == x

\* PARSER[format] || PARSER.default
PARSER(format, x) ==
    CASE format = "int"         -> PARSER_int(x)
      [] format = "temperature" -> PARSER_temperature(x)
      [] format = "bool"        -> PARSER_bool(x)
      [] OTHER                  -> PARSER_default(x)

\* FORMATTER[format] || FORMATTER.default
FORMATTER(format, x) ==
    CASE format = "int"         -> FORMATTER_int(x)
      [] format = "temperature" -> FORMATTER_temperature(x)
      [] format = "bool"        -> FORMATTER_bool(x)
      [] OTHER                  -> FORMATTER_default(x)

Format == {"int", "temperature", "bool", "default"}

(***************************************************************************)
(* JavaScript objects                                                      *)
(***************************************************************************)
EmptyObject == <<>>

\* o[k]: undefined when k is not a key of o
GetProp(o, k) == IF k \in DOMAIN o THEN o[k] ELSE Undefined

s___proto__ == <<"_", "_", "p", "r", "o", "t", "o", "_", "_">>

\* o[k] = v.  Assigning a primitive to __proto__ sets no own key.
SetProp(o, k, v) ==
    IF k = s___proto__ THEN o
    ELSE [x \in DOMAIN o \cup {k} |-> IF x = k THEN v ELSE o[x]]

(***************************************************************************)
(* The response decoder: the handler of Aircon.send_request,               *)
(* src/connector.ts lines 107-143                                          *)
(***************************************************************************)
\* String.prototype.split(sep) for a one-character separator: every
\* occurrence separates, and the empty string splits into one empty part
RECURSIVE Split(_, _)
Split(s, sep) ==
    IF \A i \in 1..Len(s) : s[i] # sep THEN <<s>>
    ELSE LET i == CHOOSE j \in 1..Len(s) :
                      s[j] = sep /\ \A h \in 1..(j - 1) : s[h] # sep
         IN  <<SubSeq(s, 1, i - 1)>> \o Split(Drop(s, i), sep)

\* s.indexOf(p) === 0
StartsWith(s, p) == Len(s) >= Len(p) /\ SubSeq(s, 1, Len(p)) = p

s_ret == <<"r", "e", "t", "=">>

RET_MSG_OK == <<"O", "K">>

s_OK == s_ret \o RET_MSG_OK

RET_MSG_PARAM_NG == <<"P", "A", "R", "A", "M", " ", "N", "G">>

RET_MSG_ADV_NG == <<"A", "D", "V", "_", "N", "G">>

\* the percent escapes the strings of this model use, with the character
\* each stands for
Escapes ==
    {<<"2", "0", " ">>, <<"2", "5", "%">>, <<"2", "C", ",">>, <<"2", "c", ",">>,
     <<"3", "D", "=">>, <<"3", "d", "=">>, <<"4", "1", "A">>, <<"6", "1", "a">>}

IsEscape(a, b) == \E x \in Escapes : x[1] = a /\ x[2] = b

Unescape(a, b) == (CHOOSE x \in Escapes : x[1] = a /\ x[2] = b)[3]

\* decodeURIComponent(s): [ok |-> TRUE, s |-> the decoded string], or
\* ok = FALSE where it throws URIError (a % not followed by an escape)
RECURSIVE decodeURIComponent(_)
decodeURIComponent(s) ==
    IF s = <<>> THEN [ok |-> TRUE, s |-> <<>>]
    ELSE IF Head(s) # "%" THEN
        LET rest == decodeURIComponent(Tail(s))
        IN  [ok |-> rest.ok, s |-> <<Head(s)>> \o rest.s]
    ELSE IF Len(s) >= 3 /\ IsEscape(s[2], s[3]) THEN
        LET rest == decodeURIComponent(Drop(s, 3))
        IN  [ok |-> rest.ok, s |-> <<Unescape(s[2], s[3])>> \o rest.s]
    ELSE [ok |-> FALSE, s |-> <<>>]

\* the promise of send_request before it settles
Pending == [ok |-> FALSE, error |-> "pending", r |-> EmptyObject]

Rejected(message) == [ok |-> FALSE, error |-> message, r |-> EmptyObject]

Resolved(r) == [ok |-> TRUE, error |-> "", r |-> r]

\* a split at the first '=' only
KeyValue_first(s) ==
    LET x == IF \A i \in 1..Len(s) : s[i] # "=" THEN <<s>>
             ELSE LET i == CHOOSE j \in 1..Len(s) :
                               s[j] = "=" /\ \A h \in 1..(j - 1) : s[h] # "="
                  IN  <<SubSeq(s, 1, i - 1), Drop(s, i)>>
    IN  [i \in 1..Len(x) |-> decodeURIComponent(x[i])]

\* s.split('=').map(decodeURIComponent)
KeyValue(s) ==
    LET x == Split(s, "=")
    IN  [i \in 1..Len(x) |-> decodeURIComponent(x[i])]

\* .filter(x => x.length === 2).forEach(x => { r[x[0]] = x[1]; }) over the
\* first k parts
RECURSIVE Collect(_, _)
Collect(pairs, k) ==
    IF k = 0 THEN EmptyObject
    ELSE LET r == Collect(pairs, k - 1)
             x == pairs[k]
         IN  IF Len(x) = 2 THEN SetProp(r, x[1].s, Str(x[2].s)) ELSE r

\* the status check without its last branch
StatusError_known(ret_msg) ==
    IF ret_msg = RET_MSG_PARAM_NG THEN "Wrong parameters"
    ELSE IF ret_msg = RET_MSG_ADV_NG THEN "Wrong ADV"
    ELSE ""

\* lines 121-127: the error thrown for a status token, "" for none
StatusError(ret_msg) ==
    IF ret_msg = RET_MSG_PARAM_NG THEN "Wrong parameters"
    ELSE IF ret_msg = RET_MSG_ADV_NG THEN "Wrong ADV"
    ELSE IF ret_msg # RET_MSG_OK THEN "Unrecognized return message"
    ELSE ""

Decode(response) ==
    LET rsp == Split(response, ",")
        ret_msg == Drop(rsp[1], 4)
        pairs == [i \in 1..(Len(rsp) - 1) |-> KeyValue(rsp[i + 1])]
    IN  IF Len(rsp) = 0 \/ ~StartsWith(rsp[1], s_ret)
            THEN Rejected("Unrecognized data format for the response")
        ELSE IF StatusError(ret_msg) # "" THEN Rejected(StatusError(ret_msg))
        ELSE IF \E i \in 1..Len(pairs) : \E j \in 1..Len(pairs[i]) : ~pairs[i][j].ok
            THEN Rejected("URIError")
        ELSE Resolved(Collect(pairs, Len(pairs)))

(***************************************************************************)
(* The field mappers and the control schema, src/connector.ts lines        *)
(* 163-181 and 196-208                                                     *)
(***************************************************************************)
s_pow == <<"p", "o", "w">>

s_mode == <<"m", "o", "d", "e">>

s_stemp == <<"s", "t", "e", "m", "p">>

s_shum == <<"s", "h", "u", "m">>

s_f_rate == <<"f", "_", "r", "a", "t", "e">>

s_f_dir == <<"f", "_", "d", "i", "r">>

s_alert == <<"a", "l", "e", "r", "t">>

s_b_mode == <<"b", "_", "m", "o", "d", "e">>

s_b_shum == <<"b", "_", "s", "h", "u", "m">>

\* Object.keys(ctrl_formats), in order
ctrl_kinds == <<"int", "temperature", "bool">>

ctrl_formats ==
    [int |-> <<s_alert, s_mode, s_b_mode>>,
     temperature |-> <<s_shum, s_stemp, s_b_shum>>,
     bool |-> <<s_pow>>]

\* formats[format].forEach(prop => x[prop] = lambda(x[prop])), first k props
RECURSIVE ParseProps(_, _, _, _)
ParseProps(x, format, props, k) ==
    IF k = 0 THEN x
    ELSE LET y == ParseProps(x, format, props, k - 1)
         IN  SetProp(y, props[k], PARSER(format, GetProp(y, props[k])))

RECURSIVE parse_data_upto(_, _, _, _)
parse_data_upto(x, kinds, formats, k) ==
    IF k = 0 THEN x
    ELSE LET y == parse_data_upto(x, kinds, formats, k - 1)
         IN  ParseProps(y, kinds[k], formats[kinds[k]], Len(formats[kinds[k]]))

parse_data(x, kinds, formats) == parse_data_upto(x, kinds, formats, Len(kinds))

\* .filter(prop => x[prop] != null).forEach(prop => x[prop] = lambda(x[prop])):
\* the filter reads x before any of this kind's props is assigned
RECURSIVE FormatProps(_, _, _, _, _)
FormatProps(x0, x, format, props, k) ==
    IF k = 0 THEN x
    ELSE LET y == FormatProps(x0, x, format, props, k - 1)
         IN  IF IsNullish(GetProp(x0, props[k])) THEN y
             ELSE SetProp(y, props[k], FORMATTER(format, GetProp(y, props[k])))

RECURSIVE format_data_upto(_, _, _, _)
format_data_upto(x, kinds, formats, k) ==
    IF k = 0 THEN x
    ELSE LET y == format_data_upto(x, kinds, formats, k - 1)
         IN  FormatProps(y, y, kinds[k], formats[kinds[k]], Len(formats[kinds[k]]))

format_data(x, kinds, formats) == format_data_upto(x, kinds, formats, Len(kinds))

parse_control_info(x) == parse_data(x, ctrl_kinds, ctrl_formats)

format_control_info(x) == format_data(x, ctrl_kinds, ctrl_formats)

(***************************************************************************)
(* The values the variables of a part hold while another part runs         *)
(***************************************************************************)
NoInfo == [done |-> FALSE, x |-> EmptyObject]

sysIdle ==
    /\ host = <<>>
    /\ appliance = <<>>
    /\ epoch = 0
    /\ objects = <<>>
    /\ calls = <<>>

decIdle ==
    /\ parts = <<>>
    /\ payload = <<>>
    /\ decoded = Pending
    /\ info = NoInfo

coeIdle ==
    /\ kind = "default"
    /\ raw = Undefined
    /\ parsed = Undefined
    /\ formatted = Undefined
    /\ reparsed = Undefined
    /\ stage = "idle"

(***************************************************************************)
(* set_control_info, src/connector.ts lines 68-85: a read of the current   *)
(* state, the merge, and the write                                         *)
(***************************************************************************)
\* ['pow', 'mode', 'stemp', 'shum', 'f_rate', 'f_dir']
minimal_keys == <<s_pow, s_mode, s_stemp, s_shum, s_f_rate, s_f_dir>>

\* .forEach(x => minimal_state[x] = current[x]), first k keys
RECURSIVE minimal_state(_, _)
minimal_state(current, k) ==
    IF k = 0 THEN EmptyObject
    ELSE SetProp(minimal_state(current, k - 1), minimal_keys[k],
                 GetProp(current, minimal_keys[k]))

\* Object.assign(target, source): every own key of source is set on target
ObjectAssign(target, source) ==
    [k \in DOMAIN target \cup DOMAIN source |->
        IF k \in DOMAIN source THEN source[k] ELSE target[k]]

\* the merge with the precedence reversed
Merge_current_wins(current, params) ==
    ObjectAssign(params, minimal_state(current, Len(minimal_keys)))

\* the merge without the current state: the change-set alone
Merge_delta(current, params) == params

\* lines 73-77: the parameters of the write
Merge(current, params) ==
    ObjectAssign(minimal_state(current, Len(minimal_keys)), params)

\* the chain with the merge and the write run whatever the read's outcome
AfterFetch_always(err, body, params) ==
    LET d == Decode(body)
    IN  [ok |-> TRUE, error |-> "",
         qs |-> Merge(IF err THEN EmptyObject ELSE d.r, params)]

\* lines 103-105 and 107-143, then lines 72-80: the request's callback
\* rejects on a transport error, the handler decodes the body, and only a
\* resolved read goes on to the merge and the write
AfterFetch(err, body, params) ==
    LET d == Decode(body)
    IN  IF err THEN [ok |-> FALSE, error |-> "transport", qs |-> EmptyObject]
        ELSE IF ~d.ok THEN [ok |-> FALSE, error |-> d.error, qs |-> EmptyObject]
        ELSE [ok |-> TRUE, error |-> "", qs |-> Merge(d.r, params)]

(***************************************************************************)
(* The appliance behind the transport (request.get, lines 99-105)          *)
(***************************************************************************)
\* the order in which the appliance lists its fields
ApplianceKeys ==
    <<s_pow, s_mode, s_stemp, s_shum, s_f_rate, s_f_dir, s_b_mode>>

\* ret=OK,key=value,... of the appliance's state; the values of this model
\* hold no character that needs a percent escape
RECURSIVE Fields(_, _)
Fields(state, k) ==
    IF k = 0 THEN <<>>
    ELSE Fields(state, k - 1) \o
         (IF ApplianceKeys[k] \in DOMAIN state
              THEN <<",">> \o ApplianceKeys[k] \o <<"=">> \o state[ApplianceKeys[k]].s
              ELSE <<>>)

Encode(state) == s_OK \o Fields(state, Len(ApplianceKeys))

\* the appliance takes over every parameter of the query string that has a
\* string value
Apply(state, qs) ==
    [k \in DOMAIN state \cup {j \in DOMAIN qs : qs[j].t = "string"} |->
        IF k \in DOMAIN qs /\ qs[k].t = "string" THEN qs[k] ELSE state[k]]

Obj2(k1, v1, k2, v2) == SetProp(SetProp(EmptyObject, k1, v1), k2, v2)

ApplianceStates ==
    {[k \in {s_pow, s_mode, s_stemp, s_shum, s_f_rate, s_f_dir} |->
        CASE k = s_pow -> Str(<<"1">>)
          [] k = s_mode -> Str(<<"3">>)
          [] k = s_stemp -> Str(<<"2", "4", ".", "0">>)
          [] k = s_shum -> Str(<<"0">>)
          [] k = s_f_rate -> Str(<<"A">>)
          [] k = s_f_dir -> Str(<<"0">>)],
     [k \in {s_pow, s_mode, s_stemp, s_shum, s_f_rate, s_b_mode} |->
        CASE k = s_pow -> Str(<<"0">>)
          [] k = s_mode -> Str(<<"4">>)
          [] k = s_stemp -> Str(<<"2", "1", ".", "5">>)
          [] k = s_shum -> Str(<<"-">>)
          [] k = s_f_rate -> Str(<<"B">>)
          [] k = s_b_mode -> Str(<<"4">>)]}

\* the bodies of a read that fails: not a response, or a status but OK
FaultBodies ==
    [malformed |-> {<<"j", "u", "n", "k">>},
     status |-> {s_ret \o RET_MSG_PARAM_NG}]

(***************************************************************************)
(* The calls of set_control_info                                           *)
(***************************************************************************)
MaxCalls == 2

CallIds == 1..MaxCalls

Hosts == {<<>>, <<"h">>}

\* the change-sets a caller passes
ChangeSets ==
    {SetProp(EmptyObject, s_pow, Bool(TRUE)),
     Obj2(s_stemp, Dec(265, 1), s_shum, Null),
     Obj2(s_b_mode, Num(1), s_f_rate, Str(<<"C">>))}

IdleCall ==
    [pc |-> "idle", obj |-> 0, arg |-> EmptyObject, seen |-> EmptyObject,
     fault |-> "none", err |-> FALSE, body |-> <<>>, qs |-> EmptyObject,
     gets |-> 0, writes |-> 0, error |-> "", readAt |-> 0, wroteAt |-> 0]

\* a call is pending from its invocation until its promise settles
IsPending(c) == calls[c].pc \in {"fetching", "fetched", "writing", "written"}

\* the objects no pending call holds: the caller hands an object to the
\* next call only after the call that held it has settled
FreeObjects == {o \in 1..Len(objects) : \A c \in CallIds : IsPending(c) => calls[c].obj # o}

Init ==
    /\ decIdle
    /\ coeIdle
    /\ host \in Hosts
    /\ appliance \in ApplianceStates
    /\ epoch = 0
    /\ objects = <<>>
    /\ calls = [c \in CallIds |-> IdleCall]

\* lines 68-71 and 87-96: params is formatted in place, then the read is
\* requested unless send_request throws for want of a host.  The calls are
\* numbered in the order of their invocation.
Invoke(c, o, heap) ==
    /\ calls[c].pc = "idle"
    /\ \A b \in CallIds : b < c => calls[b].pc # "idle"
    /\ objects' = [heap EXCEPT ![o] = format_control_info(heap[o])]
    /\ calls' = [calls EXCEPT ![c] =
          IF host = <<>>
          THEN [@ EXCEPT !.pc = "rejected", !.obj = o, !.arg = heap[o],
                         !.error = "Host is required"]
          ELSE [@ EXCEPT !.pc = "fetching", !.obj = o, !.arg = heap[o],
                         !.gets = @ + 1]]
    /\ UNCHANGED <<host, appliance, epoch, decVars, coeVars>>

set_control_info(c) ==
    \/ \E p \in ChangeSets : Invoke(c, Len(objects) + 1, Append(objects, p))
    \/ \E o \in FreeObjects : Invoke(c, o, objects)

\* the appliance answers GET /aircon/get_control_info with its state
ServeRead(c) ==
    /\ calls[c].pc = "fetching"
    /\ calls' = [calls EXCEPT ![c] =
          [@ EXCEPT !.pc = "fetched", !.seen = appliance, !.readAt = epoch,
                    !.body = Encode(appliance)]]
    /\ UNCHANGED <<host, appliance, epoch, objects, decVars, coeVars>>

\* the read fails: a transport error, a body that is no response, or a
\* status other than OK
FailRead(c) ==
    /\ calls[c].pc = "fetching"
    /\ \/ calls' = [calls EXCEPT ![c] =
              [@ EXCEPT !.pc = "fetched", !.fault = "transport", !.err = TRUE]]
       \/ \E f \in {"malformed", "status"} : \E b \in FaultBodies[f] :
            calls' = [calls EXCEPT ![c] =
              [@ EXCEPT !.pc = "fetched", !.fault = f, !.body = b]]
    /\ UNCHANGED <<host, appliance, epoch, objects, decVars, coeVars>>

\* the read's callback and the handlers chained on it run in one turn: the
\* decoding, the merge with params as the object then stands, and the
\* request of the write
FetchSettled(c) ==
    /\ calls[c].pc = "fetched"
    /\ LET next == AfterFetch(calls[c].err, calls[c].body, objects[calls[c].obj])
       IN  calls' = [calls EXCEPT ![c] =
              IF next.ok
              THEN [@ EXCEPT !.pc = "writing", !.qs = next.qs, !.writes = @ + 1,
                             !.err = FALSE, !.body = <<>>]
              ELSE [@ EXCEPT !.pc = "rejected", !.error = next.error,
                             !.err = FALSE, !.body = <<>>]]
    /\ UNCHANGED <<host, appliance, epoch, objects, decVars, coeVars>>

\* the appliance takes GET /aircon/set_control_info and answers OK
ServeWrite(c) ==
    /\ calls[c].pc = "writing"
    /\ appliance' = Apply(appliance, calls[c].qs)
    /\ epoch' = epoch + 1
    /\ calls' = [calls EXCEPT ![c] =
          [@ EXCEPT !.pc = "written", !.wroteAt = epoch + 1, !.body = s_OK]]
    /\ UNCHANGED <<host, objects, decVars, coeVars>>

\* the appliance refuses the write, or the transport loses it
FailWrite(c) ==
    /\ calls[c].pc = "writing"
    /\ \/ calls' = [calls EXCEPT ![c] = [@ EXCEPT !.pc = "written", !.err = TRUE]]
       \/ calls' = [calls EXCEPT ![c] =
              [@ EXCEPT !.pc = "written", !.body = s_ret \o RET_MSG_PARAM_NG]]
    /\ UNCHANGED <<host, appliance, epoch, objects, decVars, coeVars>>

\* the write's callback and handler: the promise of set_control_info settles
WriteSettled(c) ==
    /\ calls[c].pc = "written"
    /\ LET d == Decode(calls[c].body)
       IN  calls' = [calls EXCEPT ![c] =
              IF calls[c].err
                  THEN [@ EXCEPT !.pc = "rejected", !.error = "transport",
                                 !.err = FALSE, !.body = <<>>]
              ELSE IF ~d.ok
                  THEN [@ EXCEPT !.pc = "rejected", !.error = d.error,
                                 !.err = FALSE, !.body = <<>>]
              ELSE [@ EXCEPT !.pc = "resolved", !.body = <<>>]]
    /\ UNCHANGED <<host, appliance, epoch, objects, decVars, coeVars>>

Next ==
    \E c \in CallIds :
        \/ set_control_info(c)
        \/ ServeRead(c)
        \/ FailRead(c)
        \/ FetchSettled(c)
        \/ ServeWrite(c)
        \/ FailWrite(c)
        \/ WriteSettled(c)

Spec == Init /\ [][Next]_vars

(***************************************************************************)
(* Decoding one response body, and get_control_info's parse of the record  *)
(***************************************************************************)
MaxSegments == 2

Heads ==
    {s_OK, s_ret \o RET_MSG_PARAM_NG, s_ret \o RET_MSG_ADV_NG,
     s_ret \o <<"N", "G">>, s_ret, s_ret \o <<"O", "K", "A", "Y">>,
     s_ret \o <<"o", "k">>, s_OK \o <<"=", "1">>, RET_MSG_OK, <<>>,
     <<" ">> \o s_OK, <<"r", "e", "x", "=", "O", "K">>}

seg_pow1 == s_pow \o <<"=", "1">>

seg_mode3 == s_mode \o <<"=", "3">>

seg_stemp24 == s_stemp \o <<"=", "2", "4", ".", "0">>

seg_shum == s_shum \o <<"=", "-">>

Segments ==
    {seg_pow1, s_pow \o <<"=", "0">>, seg_mode3, seg_shum,
     <<"k", "=", "a", "=", "b">>, <<"k">>, <<>>, <<"=", "v">>, <<"k", "=">>,
     <<"a", "%", "3", "D", "b", "=", "1">>, <<"k", "=", "%", "2", "C">>,
     <<"k", "=", "%">>, <<"%", "4">>, s___proto__ \o <<"=", "x">>}

RECURSIVE SegmentLists(_)
SegmentLists(k) ==
    IF k = 0 THEN {<<>>}
    ELSE LET shorter == SegmentLists(k - 1)
         IN  shorter \cup {l \o <<g>> : l \in shorter, g \in Segments}

\* ret=OK,pow=1,mode=3,stemp=24.0,shum=-
ExampleParts == <<s_OK, seg_pow1, seg_mode3, seg_stemp24, seg_shum>>

RECURSIVE Join(_, _)
Join(l, sep) ==
    IF Len(l) = 0 THEN <<>>
    ELSE IF Len(l) = 1 THEN l[1]
    ELSE l[1] \o <<sep>> \o Join(Tail(l), sep)

InitDecode ==
    /\ sysIdle
    /\ coeIdle
    /\ parts \in {<<h>> \o l : h \in Heads, l \in SegmentLists(MaxSegments)}
                    \cup {ExampleParts}
    /\ payload = Join(parts, ",")
    /\ decoded = Pending
    /\ info = NoInfo

\* the transport hands the body to send_request's handler
HandleResponse ==
    /\ decoded = Pending
    /\ decoded' = Decode(payload)
    /\ UNCHANGED <<parts, payload, info, sysVars, coeVars>>

\* get_control_info: .then(parse_control_info), run when the request resolved
ParseControlInfo ==
    /\ decoded.ok
    /\ ~info.done
    /\ info' = [done |-> TRUE, x |-> parse_control_info(decoded.r)]
    /\ UNCHANGED <<parts, payload, decoded, sysVars, coeVars>>

NextDecode == HandleResponse \/ ParseControlInfo

SpecDecode == InitDecode /\ [][NextDecode]_vars

(***************************************************************************)
(* The coercion chain: a raw field value is parsed, formatted back to the  *)
(* wire, and parsed again.                                                 *)
(***************************************************************************)
MaxLen == 3

Alphabet == {"0", "1", "2", "-", ".", "a", " "}

RECURSIVE Strings(_)
Strings(k) ==
    IF k = 0 THEN {<<>>}
    ELSE LET shorter == Strings(k - 1)
         IN  shorter \cup {s \o <<c>> : s \in shorter, c \in Alphabet}

s_true == <<"t", "r", "u", "e">>

WireStrings == Strings(MaxLen) \cup {s_true, <<"2", "4", ".", "0">>}

\* what a field of a record can hold when PARSER is applied to it: a string
\* of the response, nothing (the field is absent), or an already typed value
RawValues ==
    {Str(s) : s \in WireStrings}
        \cup {Undefined, Null, Num(1), Num(0), Bool(TRUE), Bool(FALSE)}

InitCoerce ==
    /\ sysIdle
    /\ decIdle
    /\ kind \in Format
    /\ raw \in RawValues
    /\ parsed = Undefined
    /\ formatted = Undefined
    /\ reparsed = Undefined
    /\ stage = "raw"

Parse ==
    /\ stage = "raw"
    /\ parsed' = PARSER(kind, raw)
    /\ stage' = "parsed"
    /\ UNCHANGED <<kind, raw, formatted, reparsed, sysVars, decVars>>

FormatBack ==
    /\ stage = "parsed"
    /\ formatted' = FORMATTER(kind, parsed)
    /\ stage' = "formatted"
    /\ UNCHANGED <<kind, raw, parsed, reparsed, sysVars, decVars>>

Reparse ==
    /\ stage = "formatted"
    /\ reparsed' = PARSER(kind, formatted)
    /\ stage' = "reparsed"
    /\ UNCHANGED <<kind, raw, parsed, formatted, sysVars, decVars>>

NextCoerce == Parse \/ FormatBack \/ Reparse

SpecCoerce == InitCoerce /\ [][NextCoerce]_vars

(***************************************************************************)
(* Properties of set_control_info (under Spec)                             *)
(***************************************************************************)
SixKeys == {s_pow, s_mode, s_stemp, s_shum, s_f_rate, s_f_dir}

\* the coercion kind of a field of the control record
KindOf(k) ==
    IF k = s_pow THEN "bool"
    ELSE IF k \in {s_alert, s_mode, s_b_mode} THEN "int"
    ELSE IF k \in {s_shum, s_stemp, s_b_shum} THEN "temperature"
    ELSE "default"

\* the caller's value as the control schema formats it: a null or an
\* undefined value is left as it is
Formatted(k, v) == IF IsNullish(v) THEN v ELSE FORMATTER(KindOf(k), v)

\* C1: the parameters of the write are, for each of the six keys that is not
\* a key of the change-set, the value the appliance reported in the read of
\* this call, and for every key of the change-set the formatted value of the
\* caller, which takes precedence.
WriteIsCurrentOverlaidWithChanges ==
    \A c \in CallIds :
        calls[c].writes > 0 =>
            LET a == calls[c].arg
                q == calls[c].qs
            IN  /\ DOMAIN q = SixKeys \cup DOMAIN a
                /\ \A k \in SixKeys \ DOMAIN a : q[k] = GetProp(calls[c].seen, k)
                /\ \A k \in DOMAIN a : q[k] = Formatted(k, a[k])

OverlaidWriteReached ==
    \E c \in CallIds :
        /\ calls[c].writes = 1
        /\ calls[c].arg = SetProp(EmptyObject, s_pow, Bool(TRUE))
        /\ calls[c].seen[s_pow] = Str(<<"0">>)
        /\ calls[c].qs[s_pow] = Str(<<"1">>)
        /\ calls[c].qs[s_mode] = Str(<<"4">>)
        /\ calls[c].qs[s_f_dir] = Undefined

\* C2: when the read of the current state fails (a transport error, a body
\* that is no response, a status other than OK), the call fails and the
\* write is never sent: one request of the read, none of the write.
FailedReadSendsNoWrite ==
    \A c \in CallIds :
        calls[c].fault # "none" =>
            /\ calls[c].gets = 1
            /\ calls[c].writes = 0
            /\ calls[c].qs = EmptyObject
            /\ calls[c].pc \in {"fetched", "rejected"}

FailedReadReached ==
    /\ \E c \in CallIds : calls[c].fault = "status" /\ calls[c].pc = "rejected"
    /\ \E c \in CallIds : calls[c].fault = "transport" /\ calls[c].pc = "rejected"

\* call b read the state before the write of call a was applied, and its
\* own write is the last one applied
ReadBeforeWroteAfter(a, b) ==
    /\ a # b
    /\ calls[a].wroteAt > 0
    /\ calls[b].readAt < calls[a].wroteAt
    /\ calls[a].wroteAt < calls[b].wroteAt
    /\ calls[b].wroteAt = epoch

\* C9: two calls are not coordinated: when both read before either writes,
\* the later write submits again the value it read for a field the other
\* call changed, and the appliance ends with that stale value.
StaleReadIsWrittenBack ==
    \A a, b \in CallIds :
        ReadBeforeWroteAfter(a, b) =>
            \A k \in (SixKeys \cap DOMAIN calls[a].arg \cap DOMAIN calls[b].seen)
                        \ DOMAIN calls[b].arg :
                appliance[k] = calls[b].seen[k]

LostUpdateReached ==
    \E a, b \in CallIds :
        /\ ReadBeforeWroteAfter(a, b)
        /\ calls[a].pc = "resolved"
        /\ calls[b].pc = "resolved"
        /\ calls[a].arg = SetProp(EmptyObject, s_pow, Bool(TRUE))
        /\ s_pow \notin DOMAIN calls[b].arg
        /\ calls[a].qs[s_pow] = Str(<<"1">>)
        /\ appliance[s_pow] = Str(<<"0">>)

\* C10: two calls in sequence with the same params object, reading the same
\* state of the appliance, submit the same parameters.
RepeatedWriteSubmitsTheSame ==
    \A a, b \in CallIds :
        (/\ a < b
         /\ calls[a].obj = calls[b].obj
         /\ calls[a].writes = 1
         /\ calls[b].writes = 1
         /\ calls[a].seen = calls[b].seen) => calls[a].qs = calls[b].qs

(***************************************************************************)
(* Properties of the decoder (under SpecDecode)                            *)
(***************************************************************************)
Count(s, c) == Cardinality({i \in 1..Len(s) : s[i] = c})

\* the characters of s before its first c
Before(s, c) ==
    SubSeq(s, 1, (CHOOSE i \in 1..Len(s) :
                      s[i] = c /\ \A h \in 1..(i - 1) : s[h] # c) - 1)

\* every % of s starts a percent escape
WellEscaped(s) ==
    \A i \in 1..Len(s) :
        s[i] = "%" => i + 2 <= Len(s) /\ IsEscape(s[i + 1], s[i + 2])

SegmentsOf(l) == {l[i] : i \in 2..Len(l)}

\* C3: when the first part of the response begins with ret=, the status
\* token decides the outcome: PARAM NG is rejected with "Wrong parameters",
\* ADV_NG with "Wrong ADV", any other token but OK as an unrecognized return
\* message, and none of them resolves to a record; only OK does.
StatusDecidesOutcome ==
    (decoded # Pending /\ StartsWith(parts[1], s_ret)) =>
        LET token == Drop(parts[1], 4)
        IN  /\ token = RET_MSG_PARAM_NG =>
                decoded = Rejected("Wrong parameters")
            /\ token = RET_MSG_ADV_NG => decoded = Rejected("Wrong ADV")
            /\ token \notin {RET_MSG_OK, RET_MSG_PARAM_NG, RET_MSG_ADV_NG} =>
                decoded = Rejected("Unrecognized return message")
            /\ (decoded.ok \/ info.done) => token = RET_MSG_OK

StatusRejectedReached ==
    /\ decoded = Rejected("Unrecognized return message")
    /\ parts[1] = s_ret \o <<"N", "G">>
    /\ Len(parts) > 1

\* C4: the response ret=OK,pow=1,mode=3,stemp=24.0,shum=- is parsed by
\* get_control_info to pow = true, mode = 3, stemp = 24.0, shum = null.
ExampleParsesTyped ==
    (info.done /\ parts = ExampleParts) =>
        /\ GetProp(info.x, s_pow) = Bool(TRUE)
        /\ GetProp(info.x, s_mode) = Num(3)
        /\ GetProp(info.x, s_stemp) = Num(24)
        /\ GetProp(info.x, s_shum) = Null

\* the responses C6 is about, read with charity: the first part is exactly
\* ret=OK, every percent escape is well formed, no key is __proto__
PlainOK ==
    /\ decoded # Pending
    /\ parts[1] = s_OK
    /\ \A g \in SegmentsOf(parts) : WellEscaped(g) /\ ~StartsWith(g, s___proto__)

IsDecimalInt(s) ==
    LET d == IF s # <<>> /\ Head(s) = "-" THEN Tail(s) ELSE s
    IN  /\ d # <<>>
        /\ \A i \in 1..Len(d) : IsDigit(d[i])
        /\ (d[1] = "0" => s = <<"0">>)

HasDigit(s) == \E i \in 1..Len(s) : IsDigit(s[i])

IsMissing(x) == IsNullish(x)

\* C5: format(parse(x)) = x for the int kind over the decimal integers and
\* for the bool kind over the wire booleans 1 and 0.
RoundTripIntBool ==
    (stage \in {"formatted", "reparsed"} /\ raw.t = "string") =>
        /\ (kind = "int" /\ IsDecimalInt(raw.s)) => formatted = raw
        /\ (kind = "bool" /\ raw.s \in {<<"1">>, <<"0">>}) => formatted = raw

DefaultOf(format) ==
    CASE format = "int" -> Num(0)
      [] format = "temperature" -> Null
      [] format = "bool" -> Bool(FALSE)

====
